---- MODULE Spec2Model ----
(***************************************************************************)
(* Model of recipes/b0map/b0map.py: the MRD streaming callback process()   *)
(* and the image pipeline process_image().                                 *)
(*                                                                         *)
(* Image objects are mutable and are passed by reference, so they live in  *)
(* a heap (object id -> image record); groups and returned lists hold ids. *)
(* Pixel values are fixed-point numbers: the integer q stands for the      *)
(* real number q / PixelUnit.                                              *)
(***************************************************************************)
EXTENDS Integers, Sequences, FiniteSets, TLC

\* ------------------------------------------------------------------ bounds
MaxStream == 3      \* number of items read from the connection
MaxImgs   == 2      \* images handed to a direct call of process_image
PixelUnit == 4      \* resolution of the fixed-point pixel values

\* ------------------------------------------------------- program constants
SeriesOriginal == 99   \* image_series_index given to returned originals

\* --------------------------------------------------------- small utilities
Range(s) == {s[i] : i \in DOMAIN s}

SetMax(S) == IF S = {} THEN 0 ELSE CHOOSE y \in S : \A z \in S : z <= y

\* ------------------------------------------------------------ numpy arrays
\* An array is [shape |-> <<d1, ..., dk>>, at |-> [index tuple -> value]].
\* Operators bind their operands once (x \in {operand}) before using them.
Indices(shape) ==
  {idx \in [1..Len(shape) -> 1..SetMax(Range(shape))] :
      \A k \in 1..Len(shape) : idx[k] <= shape[k]}

\* np.stack(arrs): a new leading axis that numbers the arrays.
NpStack(arrs) ==
  CHOOSE r \in
    {[shape |-> <<Len(as)>> \o as[1].shape,
      at    |-> [idx \in Indices(<<Len(as)>> \o as[1].shape) |->
                   as[idx[1]].at[Tail(idx)]]] : as \in {arrs}} : TRUE

\* a.transpose(axes), axes given 0-based as in the source:
\* axis k of the result is axis axes[k] of a.
NpTranspose(a, axes) ==
  CHOOSE r \in
    {[shape |-> [k \in DOMAIN axes |-> x.shape[axes[k] + 1]],
      at    |-> [idx \in Indices([k \in DOMAIN axes |-> x.shape[axes[k] + 1]]) |->
                   x.at[[j \in DOMAIN axes |->
                           idx[CHOOSE k \in DOMAIN axes : axes[k] + 1 = j]]]]] :
       x \in {a}} : TRUE

\* a[..., i] with i 0-based: the last axis is fixed at i and dropped.
NpTakeLast(a, i) ==
  CHOOSE r \in
    {[shape |-> SubSeq(x.shape, 1, Len(x.shape) - 1),
      at    |-> [idx \in Indices(SubSeq(x.shape, 1, Len(x.shape) - 1)) |->
                   x.at[Append(idx, i + 1)]]] : x \in {a}} : TRUE

\* np.around on one value: nearest integer, ties to the even neighbour.
\* The result stays in fixed point (a multiple of PixelUnit).
Around(q) ==
  LET lo  == q \div PixelUnit
      rem == q - lo * PixelUnit
      r   == IF 2 * rem < PixelUnit THEN lo
             ELSE IF 2 * rem > PixelUnit THEN lo + 1
             ELSE IF lo % 2 = 0 THEN lo ELSE lo + 1
  IN  r * PixelUnit

\* astype(np.int16) on one integral value: two's complement, 16 bits wide.
ToInt16(q) ==
  LET v == q \div PixelUnit
  IN  (((v + 32768) % 65536) - 32768) * PixelUnit

\* astype(np.float64) on one real value: every value of the real MRD pixel
\* types (uint16 ... double) is a double, so the number is kept.
ToFloat64(q) == q

\* the three conversions applied to every element (lines 316, 318, 319)
NpAsFloat64(a) ==
  CHOOSE r \in {[shape |-> x.shape,
                 at |-> [idx \in DOMAIN x.at |-> ToFloat64(x.at[idx])]] :
                x \in {a}} : TRUE
NpAround(a) ==
  CHOOSE r \in {[shape |-> x.shape,
                 at |-> [idx \in DOMAIN x.at |-> Around(x.at[idx])]] :
                x \in {a}} : TRUE
NpAsInt16(a) ==
  CHOOSE r \in {[shape |-> x.shape,
                 at |-> [idx \in DOMAIN x.at |-> ToInt16(x.at[idx])]] :
                x \in {a}} : TRUE

\* ------------------------------------------------------- ismrmrd.Meta, XML
\* A text node is [s |-> literal text, n |-> numbers printed into it].
\* An attribute_string is the XML document: a sequence of <meta> elements
\* [name |-> text, values |-> <<text node, ...>>].
\* A Meta is the dict read from it, in insertion order: a sequence of
\* [name |-> key, val |-> value], value one of StrVal, IntVal, ListVal.
Text(s)    == [s |-> s, n |-> <<>>]
StrVal(x)  == [t |-> "str", x |-> x]
IntVal(i)  == [t |-> "int", i |-> i]
ListVal(l) == [t |-> "list", l |-> l]

\* str(i) for the integers the script stores
IntStr(i) ==
  IF i = 0 THEN Text("0") ELSE IF i = 1 THEN Text("1")
  ELSE [s |-> "%d", n |-> <<i>>]

\* "{:.18f}".format(x)
Fmt18(x) == [s |-> "%.18f", n |-> <<x>>]

MetaHas(m, k) == k \in {e.name : e \in Range(m)}

\* m[k] = v on a dict: an existing key keeps its place, a new key goes last
MetaSet(m, k, v) ==
  CHOOSE r \in
    {IF k \in {e.name : e \in Range(d)}
     THEN [i \in DOMAIN d |-> IF d[i].name = k THEN [name |-> k, val |-> v] ELSE d[i]]
     ELSE Append(d, [name |-> k, val |-> v]) : d \in {m}} : TRUE

\* Meta.deserialize: one <value> gives a string, several give a list;
\* a name met twice keeps the later value.
RECURSIVE MetaDeserializeFrom(_, _, _)
MetaDeserializeFrom(xml, i, m) ==
  IF i > Len(xml) THEN m
  ELSE MetaDeserializeFrom(xml, i + 1,
         MetaSet(m, xml[i].name,
                 IF Len(xml[i].values) = 1 THEN StrVal(xml[i].values[1])
                 ELSE ListVal(xml[i].values)))

MetaDeserialize(xml) == MetaDeserializeFrom(xml, 1, <<>>)

\* Meta.serialize: str() of every value, one <value> per list element
MetaSerialize(m) ==
  CHOOSE r \in
    {[i \in DOMAIN d |->
        [name   |-> d[i].name,
         values |-> IF d[i].val.t = "list" THEN d[i].val.l
                    ELSE IF d[i].val.t = "int" THEN <<IntStr(d[i].val.i)>>
                    ELSE <<d[i].val.x>>]] : d \in {m}} : TRUE

\* --------------------------------------------------------------- mrdhelper
\* config is the dict config['parameters']: a function on the keys present.
GetJsonConfigParam(config, key, default) ==
  IF key \in DOMAIN config THEN config[key] ELSE default

\* create_example_roi(img_size): the ROI is placed from img_size[0..1]
CreateExampleRoi(shape) == <<[s |-> "roi", n |-> <<shape[1], shape[2]>>]>>

\* ------------------------------------------------------------ process_image
\* lines 167-176, 297-319: stack, reorder, round, convert
ReformatFirst  == <<3, 4, 0, 1, 2>>
ReformatSecondSwapped == <<0, 1, 2, 3, 4>>   \* the second transpose left out
ReformatSecond == <<0, 1, 4, 3, 2>>
ResliceAxes    == <<3, 2, 0, 1>>

\* lines 209-216: the parameters read from the config (thresholds in tenths)
ReadParams(config) ==
  [sendoriginal |-> GetJsonConfigParam(config, "sendoriginal", FALSE),
   interleaved  |-> GetJsonConfigParam(config, "interleaved", FALSE),
   delta_te     |-> GetJsonConfigParam(config, "delta_te", 5),
   masknerode   |-> GetJsonConfigParam(config, "masknerode", 2),
   maskndilate  |-> GetJsonConfigParam(config, "maskndilate", 4),
   mask_thresh  |-> GetJsonConfigParam(config, "mask_thresh", 6),
   maskfwhm     |-> GetJsonConfigParam(config, "maskfwhm", 4),
   signalthresh |-> GetJsonConfigParam(config, "signalthresh", 1)]

\* B0Mapping with the commented-out masking switched on: bet2 is run and
\* voxels at or below signalthresh are zeroed.
B0MappingEnabled(data, opre) ==
  CHOOSE r \in
    {[data |-> [shape |-> x.shape,
                at |-> [idx \in DOMAIN x.at |->
                          IF x.at[idx] * 10 > opre.signalthresh * PixelUnit
                          THEN x.at[idx] ELSE 0]],
      subprocess |-> <<"bet2">>] : x \in {data}} : TRUE

\* lines 225-295, "Do the b0 mapping stuff": splitting the echoes, bet2
\* masking and the signal ratio are all commented out, so the data pass
\* through and no subprocess is run.
B0Mapping(data, opre) == [data |-> data, subprocess |-> <<>>]

StackedData(imgs, opre) ==
  CHOOSE r \in
    {[data |-> NpAsInt16(NpAround(NpAsFloat64(
                 NpTranspose(mapped.data, ReformatSecond)))),
      subprocess |-> mapped.subprocess] :
       mapped \in {B0Mapping(
                     NpTranspose(NpStack([i \in DOMAIN imgs |-> imgs[i].data]),
                                 ReformatFirst),
                     opre)}} : TRUE

\* ismrmrd.Image.from_array(arr, transpose=False): a fresh image around arr;
\* its data_type is the MRD type of the array's dtype, here int16.
FromArray(arr) ==
  [head |-> [data_type |-> "short", image_type |-> "none",
             image_series_index |-> 0,
             read_dir |-> <<0, 0, 0>>, phase_dir |-> <<0, 0, 0>>],
   data |-> arr,
   attribute_string |-> <<>>]

\* lines 339-344: the copied fixed header with the new image's data_type
DerivedHead(head, data_type) ==
  IF data_type \in {"cxfloat", "cxdouble"}
  THEN [head EXCEPT !.data_type = data_type, !.image_type = "complex"]
  ELSE [head EXCEPT !.data_type = data_type]

\* lines 358-381 as the list of assignments made to tmpMeta, in order;
\* default marks the two that are made only when the key is missing
MetaAssignments(oldHeader, config, shape) ==
  <<[name |-> "DataRole", val |-> StrVal(Text("Image")), default |-> FALSE],
    [name |-> "ImageProcessingHistory",
     val |-> ListVal(<<Text("PYTHON"), Text("AFIB1")>>), default |-> FALSE],
    [name |-> "WindowCenter", val |-> StrVal(Text("2048.0")), default |-> FALSE],
    [name |-> "WindowWidth", val |-> StrVal(Text("4096")), default |-> FALSE],
    [name |-> "SequenceDescriptionAdditional",
     val |-> StrVal(Text("AFI B1+ Map")), default |-> FALSE],
    [name |-> "Keep_image_geometry", val |-> IntVal(1), default |-> FALSE]>>
  \o (IF "options" \in DOMAIN config /\ config["options"] = "roi"
      THEN <<[name |-> "ROI_example", val |-> ListVal(CreateExampleRoi(shape)),
              default |-> FALSE]>>
      ELSE <<>>)
  \o (IF "options" \in DOMAIN config /\ config["options"] = "colormap"
      THEN <<[name |-> "LUTFileName",
              val |-> StrVal(Text("MicroDeltaHotMetal.pal")), default |-> FALSE]>>
      ELSE <<>>)
  \o <<[name |-> "ImageRowDir",
        val |-> ListVal([k \in 1..3 |-> Fmt18(oldHeader.read_dir[k])]),
        default |-> TRUE],
       [name |-> "ImageColumnDir",
        val |-> ListVal([k \in 1..3 |-> Fmt18(oldHeader.phase_dir[k])]),
        default |-> TRUE]>>

RECURSIVE MetaAssign(_, _, _)
MetaAssign(m, todo, i) ==
  IF i > Len(todo) THEN m
  ELSE MetaAssign(IF todo[i].default /\ MetaHas(m, todo[i].name) THEN m
                  ELSE MetaSet(m, todo[i].name, todo[i].val),
                  todo, i + 1)

\* lines 357-383: the copied Meta with the script's entries
DerivedMeta(meta, oldHeader, config, shape) ==
  CHOOSE r \in {MetaAssign(meta, todo, 1) :
                  todo \in {MetaAssignments(oldHeader, config, shape)}} : TRUE

\* lines 330-387: one pass of the re-slicing loop
DerivedImage(img, data, iImg, config) ==
  CHOOSE r \in
    {[new EXCEPT
        !.head = DerivedHead(img.head, new.head.data_type),
        !.attribute_string =
           MetaSerialize(DerivedMeta(MetaDeserialize(img.attribute_string),
                                     DerivedHead(img.head, new.head.data_type),
                                     config, data.shape))] :
       new \in {FromArray(NpTranspose(NpTakeLast(data, iImg), ResliceAxes))}} : TRUE

\* lines 401-407: one pass of the sendoriginal loop on the object itself
MarkOriginal(img) ==
  [img EXCEPT
     !.head.image_series_index = SeriesOriginal,
     !.attribute_string =
        MetaSerialize(MetaSet(MetaDeserialize(img.attribute_string),
                              "Keep_image_geometry", IntVal(1)))]

\* SendOriginal with imagesOut.append(tmpImg) in place of insert(0, tmpImg)
RECURSIVE SendOriginalAppend(_, _, _, _)
SendOriginalAppend(h, imgGroup, k, imagesOut) ==
  IF k = 0 THEN [heap |-> h, images |-> imagesOut]
  ELSE SendOriginalAppend([h EXCEPT ![imgGroup[k]] = MarkOriginal(@)],
                          imgGroup, k - 1, Append(imagesOut, imgGroup[k]))

\* lines 397-409: for image in reversed(imgGroup), on the heap.  tmpImg is
\* the object image itself (line 399), so the writes land in the heap cell
\* of imgGroup[k]; the object is put at the front of imagesOut.
RECURSIVE SendOriginal(_, _, _, _)
SendOriginal(h, imgGroup, k, imagesOut) ==
  IF k = 0 THEN [heap |-> h, images |-> imagesOut]
  ELSE SendOriginal([h EXCEPT ![imgGroup[k]] = MarkOriginal(@)],
                    imgGroup, k - 1, <<imgGroup[k]>> \o imagesOut)

\* lines 324-387: the derived images as new objects after the heap's last id
WithDerived(h, imgs, data, config) ==
  CHOOSE r \in
    {[heap   |-> [id \in (DOMAIN h) \cup (base + 1 .. base + n) |->
                    IF id \in DOMAIN h THEN h[id]
                    ELSE DerivedImage(imgs[id - base], d, id - base - 1, config)],
      images |-> [i \in 1..n |-> base + i]] :
       d \in {data}, n \in {data.shape[Len(data.shape)]},
       base \in {SetMax(DOMAIN h)}} : TRUE

\* process_image(imgGroup, connection, config, mrdHeader), called from
\* `caller`.  Result: raised (an exception left the function), the heap
\* after the call, the returned list of object ids and the subprocesses run.
\* mrdHeader is "xml" (the parsed header) or "string" (the text process() is
\* handed when the conversion failed, lines 27-28), which has no
\* sequenceParameters.  The debug folder and the NIfTI dump (lines 159-161,
\* 241-243) are taken to be writable.
ProcessImage(h, imgGroup, config, mrdHeader, caller) ==
  IF Len(imgGroup) = 0
  THEN [raised |-> FALSE, heap |-> h, images |-> <<>>, subprocess |-> <<>>]
  ELSE IF \E i \in DOMAIN imgGroup :
            h[imgGroup[i]].data.shape # h[imgGroup[1]].data.shape
  THEN \* np.stack: all input arrays must have the same shape
       [raised |-> TRUE, heap |-> h, images |-> <<>>, subprocess |-> <<>>]
  ELSE IF mrdHeader # "xml"
  THEN \* line 205: 'str' object has no attribute 'sequenceParameters'
       [raised |-> TRUE, heap |-> h, images |-> <<>>, subprocess |-> <<>>]
  ELSE
    CHOOSE res \in
      {IF sd.data.shape[Len(sd.data.shape)] > Len(imgGroup)
       THEN \* head[iImg]: list index out of range
            [raised |-> TRUE, heap |-> h, images |-> <<>>,
             subprocess |-> sd.subprocess]
       ELSE CHOOSE res2 \in
              {IF ReadParams(config).sendoriginal /\ caller # "process_raw"
               THEN [raised |-> FALSE, subprocess |-> sd.subprocess] @@
                    SendOriginal(d.heap, imgGroup, Len(imgGroup), d.images)
               ELSE [raised |-> FALSE, subprocess |-> sd.subprocess] @@ d :
                 d \in {WithDerived(h, [i \in DOMAIN imgGroup |-> h[imgGroup[i]]],
                                    sd.data, config)}} : TRUE :
         sd \in {StackedData([i \in DOMAIN imgGroup |-> h[imgGroup[i]]],
                             ReadParams(config))}} : TRUE

\* ------------------------------------------------------------------ process
\* The names process() can resolve in its module: the imports (lines 1-19)
\* and the module's own definitions (lines 22, 24, 149, 414).
ModuleNames ==
  {"ismrmrd", "os", "itertools", "logging", "traceback", "np", "fft", "plt",
   "xml", "base64", "ctypes", "re", "mrdhelper", "constants", "perf_counter",
   "nib", "subprocess", "binary_erosion", "binary_dilation", "gaussian_filter",
   "label", "debugFolder", "process", "process_image", "create_example_roi"}

\* process_raw(acqGroup, connection, config, mrdHeader) as called on lines
\* 69 and 129: looking the name up raises NameError unless the module has it.
CallProcessRaw(group) ==
  [raised |-> "process_raw" \notin ModuleNames, images |-> <<>>]

ExcludedFlags ==
  {"ACQ_IS_NOISE_MEASUREMENT", "ACQ_IS_PARALLEL_CALIBRATION",
   "ACQ_IS_PHASECORR_DATA", "ACQ_IS_NAVIGATION_DATA"}

\* IsImagingReadout without the navigation-data test
IsImagingReadoutNoNav(item) ==
  /\ "ACQ_IS_NOISE_MEASUREMENT" \notin item.flags
  /\ "ACQ_IS_PARALLEL_CALIBRATION" \notin item.flags
  /\ "ACQ_IS_PHASECORR_DATA" \notin item.flags

\* lines 59-62: an imaging readout
IsImagingReadout(item) ==
  /\ "ACQ_IS_NOISE_MEASUREMENT" \notin item.flags
  /\ "ACQ_IS_PARALLEL_CALIBRATION" \notin item.flags
  /\ "ACQ_IS_PHASECORR_DATA" \notin item.flags
  /\ "ACQ_IS_NAVIGATION_DATA" \notin item.flags

\* line 67
IsLastInSlice(item) == "ACQ_LAST_IN_SLICE" \in item.flags

\* list.sort(key = time_stamp) (line 118): stable insertion
RECURSIVE SortByTimeStamp(_)
SortByTimeStamp(ws) ==
  IF Len(ws) <= 1 THEN ws
  ELSE LET rest == SortByTimeStamp(SubSeq(ws, 1, Len(ws) - 1))
           w    == ws[Len(ws)]
           k    == Cardinality({i \in DOMAIN rest : rest[i].time_stamp <= w.time_stamp})
       IN  SubSeq(rest, 1, k) \o <<w>> \o SubSeq(rest, k + 1, Len(rest))

\* what send_image puts on the wire: the images as they are when sent
Snapshot(h, ids) == [i \in DOMAIN ids |-> h[ids[i]]]

\* ------------------------------------------------------------------- state
VARIABLES
  pc,             \* where process() is: "loop", "post", "except", "finally",
                  \* "done"; "call" / "returned" around a direct call
  config,         \* config['parameters']
  config2,        \* the config of the companion call (direct calls only)
  mrdHeader,      \* "xml" or "string"
  caller,         \* the frame that calls process_image (stack[-2].name)
  heap,           \* object id -> image
  acqGroup,       \* list of acquisitions
  imgGroup,       \* list of image object ids
  waveformGroup,  \* list of waveforms
  received,       \* history: the items the connection has yielded so far,
                  \*   images as they were on arrival
  sent,           \* history: the messages written to the connection
  calls,          \* history: the calls of process_image, with the argument
  ret,            \* what the last process_image call returned
  ret2,           \* what the companion call returned (direct calls only)
  spawned         \* history: the subprocesses run

vars == <<pc, config, config2, mrdHeader, caller, heap, acqGroup, imgGroup,
          waveformGroup, received, sent, calls, ret, ret2, spawned>>

NoReturn == [raised |-> FALSE, images |-> <<>>, content |-> <<>>, called |-> FALSE]

\* ------------------------------------------------------------------ inputs
\* Images come in three kinds that differ in header and meta attributes.
ImageKinds == 1..3

KindHead(v) ==
  IF v = 1 THEN [data_type |-> "float", image_type |-> "magnitude",
                 image_series_index |-> 1,
                 read_dir |-> <<1, 0, 0>>, phase_dir |-> <<0, 1, 0>>]
  ELSE IF v = 2 THEN [data_type |-> "short", image_type |-> "phase",
                 image_series_index |-> SeriesOriginal,
                 read_dir |-> <<0, 1, 0>>, phase_dir |-> <<0, 0, 1>>]
  ELSE [data_type |-> "double", image_type |-> "magnitude",
                 image_series_index |-> 2,
                 read_dir |-> <<0, 0, 1>>, phase_dir |-> <<1, 0, 0>>]

KindAttributes(v) ==
  IF v = 1 THEN <<>>
  ELSE IF v = 2 THEN <<[name |-> "Keep_image_geometry", values |-> <<Text("1")>>]>>
  ELSE <<[name |-> "DataRole", values |-> <<Text("Raw")>>],
         [name |-> "Keep_image_geometry", values |-> <<Text("0")>>],
         [name |-> "ImageRowDir",
          values |-> <<Text("1"), Text("0"), Text("0")>>],
         [name |-> "DataRole", values |-> <<Text("Image")>>]>>

\* pixel values as numbers in fixed point; integer types hold integers
PixelCodes == {-6, 7}
PixelOf(data_type, k) ==
  IF data_type \in {"float", "double"} THEN k ELSE k * PixelUnit

MakeImage(v, shape, px) ==
  [head |-> KindHead(v),
   data |-> [shape |-> shape,
             at |-> [idx \in Indices(shape) |->
                       PixelOf(KindHead(v).data_type, px[idx])]],
   attribute_string |-> KindAttributes(v)]

\* images a stream carries: one voxel each, and one of another matrix size
OneVoxel == <<1, 1, 1, 1>>
StreamImages ==
  {MakeImage(v, OneVoxel, [idx \in Indices(OneVoxel) |-> 7]) : v \in ImageKinds}
  \cup {MakeImage(1, <<1, 1, 1, 2>>, [idx \in Indices(<<1, 1, 1, 2>>) |-> -6])}

AcqFlagSets ==
  {{}, {"ACQ_LAST_IN_SLICE"}, {"ACQ_IS_NOISE_MEASUREMENT", "ACQ_LAST_IN_SLICE"}}
  \cup {{f} : f \in ExcludedFlags}

StreamWaveforms ==
  {[time_stamp |-> 2, waveform_id |-> 0], [time_stamp |-> 1, waveform_id |-> 1]}

\* config['parameters'] with the keys in `keys` present
BaseConfig(keys, sendoriginal, options) ==
  [k \in keys |-> IF k = "sendoriginal" THEN sendoriginal ELSE options]

StreamConfigs ==
  {BaseConfig({}, FALSE, ""), BaseConfig({"sendoriginal"}, TRUE, "")}

\* the parameters of the disabled masking and signal processing, each with a
\* value other than its default (thresholds in tenths)
MaskedKeys ==
  {"delta_te", "interleaved", "masknerode", "maskndilate", "mask_thresh",
   "maskfwhm", "signalthresh"}

MaskedValue(k) ==
  IF k = "interleaved" THEN TRUE
  ELSE IF k = "delta_te" THEN 7
  ELSE IF k = "masknerode" THEN 3
  ELSE IF k = "maskndilate" THEN 5
  ELSE IF k = "mask_thresh" THEN 5
  ELSE IF k = "maskfwhm" THEN 6
  ELSE 20

WithMasked(cfg, keys) ==
  [k \in (DOMAIN cfg) \cup keys |-> IF k \in keys THEN MaskedValue(k) ELSE cfg[k]]

CallConfigs ==
  {BaseConfig(keys, so, opt) :
     keys \in SUBSET {"sendoriginal", "options"},
     so \in BOOLEAN, opt \in {"roi", "colormap"}}

\* groups of n images of one shape
ImageGroups(n, kinds, shapes, codes) ==
  UNION {[1..n -> {MakeImage(v, shape, px) :
                     v \in kinds, px \in [Indices(shape) -> codes]}] :
           shape \in shapes}

\* config2 differs from config in one masked parameter or in all of them
MaskedChoices == {{}, MaskedKeys} \cup {{k} : k \in MaskedKeys}

ResliceShapes == {<<2, 1, 1, 1>>, <<1, 2, 1, 1>>, <<1, 1, 2, 1>>, <<1, 1, 1, 2>>}

\* ------------------------------------------------------------ process: Init
Init ==
  /\ pc = "loop"
  /\ config \in StreamConfigs
  /\ config2 = config
  /\ mrdHeader \in {"xml", "string"}
  /\ caller = "process"
  /\ heap = <<>>
  /\ acqGroup = <<>>
  /\ imgGroup = <<>>
  /\ waveformGroup = <<>>
  /\ received = <<>>
  /\ sent = <<>>
  /\ calls = <<>>
  /\ ret = NoReturn
  /\ ret2 = NoReturn
  /\ spawned = <<>>

CanRead == pc = "loop" /\ Len(received) < MaxStream

\* lines 57-71: an Acquisition arrives
RecvAcquisition ==
  /\ CanRead
  /\ \E flags \in AcqFlagSets :
       LET item  == [type |-> "Acquisition", flags |-> flags,
                     scan_counter |-> Len(received) + 1]
           group == IF IsImagingReadout(item) THEN Append(acqGroup, item)
                    ELSE acqGroup
       IN  /\ received' = Append(received, item)
           /\ IF IsLastInSlice(item)
              THEN LET image == CallProcessRaw(group)
                   IN  IF image.raised
                       THEN /\ acqGroup' = group
                            /\ pc' = "except"
                            /\ sent' = sent
                       ELSE /\ sent' = Append(sent, [kind |-> "image",
                                                     images |-> image.images])
                            /\ acqGroup' = <<>>
                            /\ pc' = pc
              ELSE /\ acqGroup' = group
                   /\ pc' = pc
                   /\ sent' = sent
  /\ UNCHANGED <<config, config2, mrdHeader, caller, heap, imgGroup,
                 waveformGroup, calls, ret, ret2, spawned>>

\* lines 76-100: an Image arrives
RecvImage ==
  /\ CanRead
  /\ \E img \in StreamImages :
       LET id == SetMax(DOMAIN heap) + 1
       IN  /\ received' = Append(received, [type |-> "Image", img |-> img, id |-> id])
           /\ heap' = Append(heap, img)
           /\ imgGroup' = Append(imgGroup, id)
  /\ UNCHANGED <<pc, config, config2, mrdHeader, caller, acqGroup,
                 waveformGroup, sent, calls, ret, ret2, spawned>>

\* lines 105-106: a Waveform arrives
RecvWaveform ==
  /\ CanRead
  /\ \E w \in StreamWaveforms :
       /\ received' = Append(received, [type |-> "Waveform", wav |-> w])
       /\ waveformGroup' = Append(waveformGroup, w)
  /\ UNCHANGED <<pc, config, config2, mrdHeader, caller, heap, acqGroup,
                 imgGroup, sent, calls, ret, ret2, spawned>>

\* lines 108-109: None ends the loop
RecvNone ==
  /\ CanRead
  /\ received' = Append(received, [type |-> "None"])
  /\ pc' = "post"
  /\ UNCHANGED <<config, config2, mrdHeader, caller, heap, acqGroup, imgGroup,
                 waveformGroup, sent, calls, ret, ret2, spawned>>

\* lines 111-112: anything else is logged and skipped
RecvUnsupported ==
  /\ CanRead
  /\ received' = Append(received, [type |-> "str"])
  /\ UNCHANGED <<pc, config, config2, mrdHeader, caller, heap, acqGroup,
                 imgGroup, waveformGroup, sent, calls, ret, ret2, spawned>>

\* line 53: the iterator is exhausted
StreamExhausted ==
  /\ pc = "loop"
  /\ pc' = "post"
  /\ UNCHANGED <<config, config2, mrdHeader, caller, heap, acqGroup, imgGroup,
                 waveformGroup, received, sent, calls, ret, ret2, spawned>>

\* lines 114-139: after the loop
PostLoop ==
  /\ pc = "post"
  /\ waveformGroup' = SortByTimeStamp(waveformGroup)
  /\ LET raw == CallProcessRaw(acqGroup)
     IN  IF Len(acqGroup) > 0 /\ raw.raised
         THEN /\ pc' = "except"
              /\ UNCHANGED <<heap, acqGroup, imgGroup, sent, calls, ret, spawned>>
         ELSE
           LET sent1 == IF Len(acqGroup) > 0
                        THEN Append(sent, [kind |-> "image", images |-> raw.images])
                        ELSE sent
           IN  /\ acqGroup' = <<>>
               /\ IF Len(imgGroup) > 0
                  THEN LET r == ProcessImage(heap, imgGroup, config, mrdHeader, caller)
                       IN  /\ calls' = Append(calls, [fn |-> "process_image",
                                                      imgGroup |-> imgGroup])
                           /\ spawned' = spawned \o r.subprocess
                           /\ heap' = r.heap
                           /\ IF r.raised
                              THEN /\ pc' = "except"
                                   /\ sent' = sent1
                                   /\ UNCHANGED <<imgGroup, ret>>
                              ELSE /\ ret' = [raised |-> FALSE, images |-> r.images,
                                              content |-> Snapshot(r.heap, r.images),
                                              called |-> TRUE]
                                   /\ sent' = Append(sent1,
                                        [kind |-> "image",
                                         images |-> Snapshot(r.heap, r.images)])
                                   /\ imgGroup' = <<>>
                                   /\ pc' = "finally"
                  ELSE /\ pc' = "finally"
                       /\ sent' = sent1
                       /\ UNCHANGED <<heap, imgGroup, calls, ret, spawned>>
  /\ UNCHANGED <<config, config2, mrdHeader, caller, received, ret2>>

\* lines 141-143: the exception is logged to the client
Except ==
  /\ pc = "except"
  /\ sent' = Append(sent, [kind |-> "logging", images |-> <<>>])
  /\ pc' = "finally"
  /\ UNCHANGED <<config, config2, mrdHeader, caller, heap, acqGroup, imgGroup,
                 waveformGroup, received, calls, ret, ret2, spawned>>

\* lines 145-146
Finally ==
  /\ pc = "finally"
  /\ sent' = Append(sent, [kind |-> "close", images |-> <<>>])
  /\ pc' = "done"
  /\ UNCHANGED <<config, config2, mrdHeader, caller, heap, acqGroup, imgGroup,
                 waveformGroup, received, calls, ret, ret2, spawned>>

Next ==
  \/ RecvAcquisition
  \/ RecvImage
  \/ RecvWaveform
  \/ RecvNone
  \/ RecvUnsupported
  \/ StreamExhausted
  \/ PostLoop
  \/ Except
  \/ Finally

Spec == Init /\ [][Next]_vars

\* ------------------------------------------- process_image called directly
\* The caller holds imgGroup; `received` keeps the images as handed over.
InitGroup(group) ==
  /\ heap = group
  /\ imgGroup = [i \in DOMAIN group |-> i]
  /\ received = [i \in DOMAIN group |-> [type |-> "Image", img |-> group[i], id |-> i]]
  /\ pc = "call"
  /\ mrdHeader = "xml"
  /\ acqGroup = <<>>
  /\ waveformGroup = <<>>
  /\ sent = <<>>
  /\ calls = <<>>
  /\ ret = NoReturn
  /\ ret2 = NoReturn
  /\ spawned = <<>>

\* header, meta attributes and configuration vary; one voxel per image
InitCall ==
  /\ \E n \in 1..MaxImgs :
       \E group \in ImageGroups(n, ImageKinds, {OneVoxel}, {7}) : InitGroup(group)
  /\ config \in CallConfigs
  /\ \E keys \in MaskedChoices : config2 = WithMasked(config, keys)
  /\ caller \in {"process", "process_raw"}

\* pixel data and shape vary
InitReslice ==
  /\ \E n \in 1..MaxImgs :
       \E group \in ImageGroups(n, {1, 2}, ResliceShapes, PixelCodes) : InitGroup(group)
  /\ config \in StreamConfigs
  /\ config2 = config
  /\ caller = "process"

\* image = process_image(imgGroup, connection, config, mrdHeader), and the
\* same call on the same inputs under config2
DirectCall ==
  /\ pc = "call"
  /\ LET r  == ProcessImage(heap, imgGroup, config, mrdHeader, caller)
         r2 == ProcessImage(heap, imgGroup, config2, mrdHeader, caller)
     IN  /\ heap' = r.heap
         /\ calls' = Append(calls, [fn |-> "process_image", imgGroup |-> imgGroup])
         /\ spawned' = spawned \o r.subprocess \o r2.subprocess
         /\ ret' = [raised |-> r.raised, images |-> r.images,
                    content |-> Snapshot(r.heap, r.images), called |-> TRUE]
         /\ ret2' = [raised |-> r2.raised, images |-> r2.images,
                     content |-> Snapshot(r2.heap, r2.images), called |-> TRUE]
  /\ pc' = "returned"
  /\ UNCHANGED <<config, config2, mrdHeader, caller, acqGroup, imgGroup,
                 waveformGroup, received, sent>>

SpecCall == InitCall /\ [][DirectCall]_vars

SpecReslice == InitReslice /\ [][DirectCall]_vars

\* ================================================================== claims
IsAcq(item)   == item.type = "Acquisition"
IsImg(item)   == item.type = "Image"
HasLast(item) == IsAcq(item) /\ "ACQ_LAST_IN_SLICE" \in item.flags
Unflagged(item) == IsAcq(item) /\ item.flags \cap ExcludedFlags = {}

ReceivedImages == SelectSeq(received, IsImg)
NImages        == Len(imgGroup)
SendOriginalOn == "sendoriginal" \in DOMAIN config /\ config["sendoriginal"] = TRUE
KeepGeometrySet(img) ==
  /\ \E i \in DOMAIN img.attribute_string :
       img.attribute_string[i].name = "Keep_image_geometry"
  /\ \A i \in DOMAIN img.attribute_string :
       img.attribute_string[i].name = "Keep_image_geometry"
         => img.attribute_string[i].values = <<Text("1")>>

\* C1: Images are only buffered while the stream is read (every send_image
\* issued during the loop answers a LAST_IN_SLICE acquisition); once the
\* stream has ended with at least one Image received, process_image has been
\* called exactly once, with all received Images in arrival order, and its
\* result has been sent by exactly one send_image, before send_close.
C1_StreamEndSendsProcessedImages ==
  /\ pc = "loop" =>
       /\ imgGroup = [i \in DOMAIN ReceivedImages |-> ReceivedImages[i].id]
       /\ Cardinality({i \in DOMAIN sent : sent[i].kind = "image"})
            <= Cardinality({i \in DOMAIN received : HasLast(received[i])})
  /\ (pc = "done" /\ Len(ReceivedImages) > 0) =>
       /\ calls = <<[fn |-> "process_image",
                     imgGroup |-> [i \in DOMAIN ReceivedImages |-> ReceivedImages[i].id]]>>
       /\ ret.called
       /\ Cardinality({i \in DOMAIN sent :
                         sent[i] = [kind |-> "image", images |-> ret.content]}) = 1
       /\ \E i \in DOMAIN sent :
            /\ sent[i] = [kind |-> "image", images |-> ret.content]
            /\ \E j \in DOMAIN sent : j > i /\ sent[j].kind = "close"

\* C2: once an Acquisition with ACQ_LAST_IN_SLICE has been handled, the
\* images of process_raw have been sent with send_image, the acquisition
\* group is empty again and process() is still reading the stream.
C2_LastInSliceTriggersProcessRaw ==
  (/\ Len(received) > 0
   /\ HasLast(received[Len(received)])
   /\ pc \in {"loop", "except"})
  => /\ pc = "loop"
     /\ acqGroup = <<>>
     /\ Len(sent) > 0
     /\ sent[Len(sent)].kind = "image"

IsDerivedOf(id, img, i) ==
  /\ id \notin Range(imgGroup)
  /\ img.data.shape = received[i].img.data.shape
  /\ img.head.read_dir = received[i].img.head.read_dir
  /\ img.head.phase_dir = received[i].img.head.phase_dir
  /\ img.head.image_series_index = received[i].img.head.image_series_index

\* C3: a call of process_image on N images, not made from process_raw,
\* returns with sendoriginal true 2N images: first the N input images in
\* arrival order, each with image_series_index 99 and Keep_image_geometry 1,
\* then the N derived images in the same order; with sendoriginal false or
\* absent it returns the N derived images only.
C3_SendOriginalPrependsOriginals ==
  (pc = "returned" /\ caller # "process_raw" /\ ~ret.raised) =>
    IF SendOriginalOn
    THEN /\ Len(ret.images) = 2 * NImages
         /\ \A i \in 1..NImages :
              /\ ret.images[i] = imgGroup[i]
              /\ ret.content[i].data = received[i].img.data
              /\ ret.content[i].head.image_series_index = SeriesOriginal
              /\ KeepGeometrySet(ret.content[i])
              /\ IsDerivedOf(ret.images[NImages + i], ret.content[NImages + i], i)
    ELSE /\ Len(ret.images) = NImages
         /\ \A i \in 1..NImages : IsDerivedOf(ret.images[i], ret.content[i], i)

C3_Witness ==
  /\ pc = "returned" /\ caller = "process" /\ SendOriginalOn /\ ~ret.raised
  /\ NImages = 2
  /\ Len(ret.images) = 4
  /\ received[1].img # received[2].img

\* C4: with sendoriginal true, every image of the caller's imgGroup has after
\* the call the image_series_index and the attribute_string it had before.
C4_InputsNotModified ==
  (pc = "returned" /\ SendOriginalOn /\ ~ret.raised) =>
    \A i \in 1..NImages :
      /\ heap[imgGroup[i]].head.image_series_index
           = received[i].img.head.image_series_index
      /\ heap[imgGroup[i]].attribute_string = received[i].img.attribute_string

DifferOnlyInMasked(c1, c2) ==
  /\ (DOMAIN c1) \ MaskedKeys = (DOMAIN c2) \ MaskedKeys
  /\ \A k \in (DOMAIN c1) \ MaskedKeys : c1[k] = c2[k]

\* C5: two calls on the same images and header whose configs differ only in
\* delta_te, interleaved, masknerode, maskndilate, mask_thresh, maskfwhm or
\* signalthresh return the same list of images (pixel data, headers, meta
\* attributes), and no subprocess is run.
C5_MaskParametersDoNotMatter ==
  (pc = "returned" /\ DifferOnlyInMasked(config, config2)) =>
    /\ ret.raised = ret2.raised
    /\ Len(ret.content) = Len(ret2.content)
    /\ ret.content = ret2.content
    /\ spawned = <<>>

C5_Witness ==
  /\ pc = "returned"
  /\ DifferOnlyInMasked(config, config2)
  /\ "signalthresh" \in DOMAIN config2
  /\ "signalthresh" \notin DOMAIN config
  /\ "delta_te" \in DOMAIN config2
  /\ Len(ret.content) = 2

DerivedOffset == IF SendOriginalOn THEN NImages ELSE 0

\* C6: for N real images of one shape process_image makes N derived images;
\* the i-th has the shape of the i-th input, at every position the input's
\* value rounded to a nearest integer, held as int16 and not rescaled, and
\* the input's fixed header with only data_type changed, to short.
C6_ResliceRestoresImages ==
  (pc = "returned" /\ ~ret.raised) =>
    /\ Len(ret.content) = DerivedOffset + NImages
    /\ \A i \in 1..NImages :
         LET out == ret.content[DerivedOffset + i]
             inp == received[i].img
         IN  /\ out.data.shape = inp.data.shape
             /\ DOMAIN out.data.at = DOMAIN inp.data.at
             /\ \A idx \in DOMAIN inp.data.at :
                  LET o == out.data.at[idx]
                      d == o - inp.data.at[idx]
                  IN  /\ o % PixelUnit = 0
                      /\ 2 * d <= PixelUnit /\ -2 * d <= PixelUnit
                      /\ o \div PixelUnit \in -32768..32767
             /\ out.head = [inp.head EXCEPT !.data_type = "short"]

C6_Witness ==
  /\ pc = "returned" /\ ~ret.raised
  /\ NImages = 2
  /\ received[1].img.data.shape = <<1, 2, 1, 1>>
  /\ received[1].img.data.at[<<1, 1, 1, 1>>] # received[1].img.data.at[<<1, 2, 1, 1>>]
  /\ received[1].img.data # received[2].img.data
  /\ received[1].img.head.data_type = "float"
  /\ Len(ret.content) = 2
  /\ ret.content[1].data.at[<<1, 1, 1, 1>>] # received[1].img.data.at[<<1, 1, 1, 1>>]

LastTrigger == SetMax({i \in DOMAIN received : HasLast(received[i])})

\* C7: while the stream is read, the acquisition group is, in arrival order,
\* the acquisitions received after the last ACQ_LAST_IN_SLICE acquisition (or
\* since the start) that carry none of the noise, parallel-calibration,
\* phase-correction and navigation flags; and no acquisition carrying one of
\* them is ever in the group, ACQ_LAST_IN_SLICE or not.
C7_AcqGroupHoldsImagingReadouts ==
  /\ pc = "loop" =>
       acqGroup = SelectSeq(SubSeq(received, LastTrigger + 1, Len(received)),
                            Unflagged)
  /\ \A i \in DOMAIN acqGroup : acqGroup[i].flags \cap ExcludedFlags = {}

C7_Witness ==
  /\ pc = "loop"
  /\ Len(received) = 3
  /\ IsAcq(received[2]) /\ ~Unflagged(received[2])
  /\ Len(acqGroup) = 2
  /\ acqGroup[1].scan_counter = 1 /\ acqGroup[2].scan_counter = 3

====
